---------------------------- MODULE Spec2Model ----------------------------
(***************************************************************************)
(* PlateShapez: the perturbation registry (perturbations/base.py), the     *)
(* source-file enumeration (utils/io.py), the overlay placement            *)
(* (utils/overlay.py) and DatasetGenerator.run (pipeline.py).              *)
(*                                                                         *)
(* Text (file names, perturbation names) is a sequence of one-character    *)
(* strings, so that Path.stem, str.strip, str.replace, glob matching and   *)
(* the "{i:03d}" format are computed the way the code computes them.       *)
(***************************************************************************)
EXTENDS Integers, Sequences, FiniteSets, TLC

(***************************************************************************)
(* Bounds of the model.                                                    *)
(***************************************************************************)
MaxVariants == 2      \* n_variants ranges over 0..MaxVariants
MaxBg == 2            \* entries of the background directory
MaxOv == 1            \* entries of the overlay directory
MaxChain == 2         \* entries of the configured perturbation chain
MaxRuns == 2          \* run() calls of one process (specification SpecRuns)
MaxCalls == 3         \* register() calls after import (specification SpecReg)

(***************************************************************************)
(* Text helpers.                                                           *)
(***************************************************************************)
\* Python's 1-based position of the last occurrence of character c, 0 if none
\* (str.rfind + 1).
RECURSIVE RFind(_, _)
RFind(s, c) ==
    IF s = <<>> THEN 0
    ELSE IF s[Len(s)] = c THEN Len(s)
    ELSE RFind(SubSeq(s, 1, Len(s) - 1), c)

\* s.startswith(p)
StartsWith(s, p) == Len(p) <= Len(s) /\ SubSeq(s, 1, Len(p)) = p

\* s.endswith(p)
EndsWith(s, p) == Len(p) <= Len(s) /\ SubSeq(s, Len(s) - Len(p) + 1, Len(s)) = p

\* str.upper() on the characters file extensions are made of.
UpperChar(c) ==
    CASE c = "j" -> "J" [] c = "p" -> "P" [] c = "g" -> "G" [] c = "e" -> "E"
      [] c = "n" -> "N" [] OTHER -> c

Upper(s) == [k \in 1..Len(s) |-> UpperChar(s[k])]

\* str.replace(old, new): every non-overlapping occurrence, left to right.
RECURSIVE Replace(_, _, _)
Replace(s, old, new) ==
    IF s = <<>> THEN <<>>
    ELSE IF StartsWith(s, old)
         THEN new \o Replace(SubSeq(s, Len(old) + 1, Len(s)), old, new)
         ELSE <<s[1]>> \o Replace(Tail(s), old, new)

\* str.strip(): leading and trailing blanks removed.
RECURSIVE LStrip(_)
LStrip(s) == IF s # <<>> /\ s[1] = " " THEN LStrip(Tail(s)) ELSE s

RECURSIVE RStrip(_)
RStrip(s) ==
    IF s # <<>> /\ s[Len(s)] = " " THEN RStrip(SubSeq(s, 1, Len(s) - 1)) ELSE s

Strip(s) == RStrip(LStrip(s))

\* The decimal digits of a natural number.
Digit(d) == CASE d = 0 -> "0" [] d = 1 -> "1" [] d = 2 -> "2" [] d = 3 -> "3"
              [] d = 4 -> "4" [] d = 5 -> "5" [] d = 6 -> "6" [] d = 7 -> "7"
              [] d = 8 -> "8" [] OTHER -> "9"

RECURSIVE Decimal(_)
Decimal(n) == IF n < 10 THEN <<Digit(n)>> ELSE Decimal(n \div 10) \o <<Digit(n % 10)>>

RECURSIVE ZeroPad(_, _)
ZeroPad(s, width) == IF Len(s) >= width THEN s ELSE ZeroPad(<<"0">> \o s, width)

FmtWidth == 3

\* f"{i:03d}"
Fmt03d(i) == ZeroPad(Decimal(i), FmtWidth)

\* pathlib: PurePath.suffix and PurePath.stem of a file name.
Stem(name) ==
    LET i == RFind(name, ".")
    IN  IF 1 < i /\ i < Len(name) THEN SubSeq(name, 1, i - 1) ELSE name

(***************************************************************************)
(* Literals.                                                               *)
(***************************************************************************)
ExtJpg == <<".", "j", "p", "g">>
ExtJpeg == <<".", "j", "p", "e", "g">>
ExtPng == <<".", "p", "n", "g">>
ExtJson == <<".", "j", "s", "o", "n">>
Underscore == <<"_">>

NameNoise == <<"n", "o", "i", "s", "e">>
NameShapes == <<"s", "h", "a", "p", "e", "s">>
NameWarp == <<"w", "a", "r", "p">>
NameTexture == <<"t", "e", "x", "t", "u", "r", "e">>
NameBase == <<"b", "a", "s", "e">>
NameBogus == <<"b", "o", "g", "u", "s">>

(***************************************************************************)
(* perturbations/base.py: the classes and the registry.                    *)
(*                                                                         *)
(* A class is [id, cname, has_name, name]: id tells classes apart, cname   *)
(* is its __name__, name its `name` attribute (has_name = FALSE for a      *)
(* class that is no Perturbation subclass and defines none).               *)
(***************************************************************************)
NoisePerturbation ==
    [id |-> "noise.NoisePerturbation", cname |-> <<"N", "o", "i", "s", "e">>,
     has_name |-> TRUE, name |-> NameNoise]
ShapesPerturbation ==
    [id |-> "shapes.ShapesPerturbation", cname |-> <<"S", "h", "a", "p", "e", "s">>,
     has_name |-> TRUE, name |-> NameShapes]
TexturePerturbation ==
    [id |-> "texture.TexturePerturbation", cname |-> <<"T", "e", "x", "t">>,
     has_name |-> TRUE, name |-> NameTexture]
WarpPerturbation ==
    [id |-> "warp.WarpPerturbation", cname |-> <<"W", "a", "r", "p">>,
     has_name |-> TRUE, name |-> NameWarp]

\* perturbations/__init__.py imports noise, shapes, texture, warp in this order;
\* each module's @register runs at import.
BuiltinClasses == <<NoisePerturbation, ShapesPerturbation, TexturePerturbation, WarpPerturbation>>

\* Classes a caller may hand to register() after import.
DuplicateShapes ==          \* tests/test_perturbations.py: name = "shapes"
    [id |-> "test.DuplicateShapes", cname |-> <<"D", "u", "p">>,
     has_name |-> TRUE, name |-> NameShapes]
PaddedNoise ==              \* name = " noise ": strips to a registered name
    [id |-> "user.PaddedNoise", cname |-> <<"P", "a", "d">>,
     has_name |-> TRUE, name |-> <<" ">> \o NameNoise \o <<" ">>]
Blur ==                     \* name = "blur"
    [id |-> "user.Blur", cname |-> <<"B", "l", "u", "r">>,
     has_name |-> TRUE, name |-> <<"b", "l", "u", "r">>]
PaddedBlur ==               \* name = "blur "
    [id |-> "user.PaddedBlur", cname |-> <<"P", "b">>,
     has_name |-> TRUE, name |-> <<"b", "l", "u", "r", " ">>]
Blank ==                    \* name = "  "
    [id |-> "user.Blank", cname |-> <<"B", "l", "a", "n", "k">>,
     has_name |-> TRUE, name |-> <<" ", " ">>]
Unnamed ==                  \* Perturbation subclass that keeps the inherited name = "base"
    [id |-> "user.Unnamed", cname |-> <<"U", "n">>,
     has_name |-> TRUE, name |-> NameBase]
Fog ==                      \* a plain class without a `name` attribute
    [id |-> "user.Fog", cname |-> <<"F", "o", "g">>,
     has_name |-> FALSE, name |-> <<>>]

UserClasses == {DuplicateShapes, PaddedNoise, Blur, PaddedBlur, Blank, Unnamed, Fog, ShapesPerturbation}

AllClasses == UserClasses \cup {BuiltinClasses[k] : k \in 1..Len(BuiltinClasses)}

ClassById(id) == CHOOSE c \in AllClasses : c.id = id

NoError == [kind |-> "none", msg |-> "", arg |-> <<>>]
ValueError(msg, arg) == [kind |-> "ValueError", msg |-> msg, arg |-> arg]
OSError(msg, arg) == [kind |-> "OSError", msg |-> msg, arg |-> arg]

\* What a direct call of fn returned, or the exception that left it.
Returned(fn, value) == [fn |-> fn, raised |-> NoError, value |-> value]
Raised(fn, err) == [fn |-> fn, raised |-> err, value |-> <<>>]

\* getattr(perturbation_cls, "name", perturbation_cls.__name__).strip()
RegistrationName(cls) == Strip(IF cls.has_name THEN cls.name ELSE cls.cname)

\* PERTURBATION_REGISTRY[name] = perturbation_cls
RegistryInsert(reg, name, cls) ==
    [k \in DOMAIN reg \cup {name} |-> IF k = name THEN cls.id ELSE reg[k]]

\* A register() without its duplicate guard: a taken name is overwritten.
IsDuplicateUnguarded(reg, name) == FALSE

\* name in PERTURBATION_REGISTRY
IsDuplicate(reg, name) == name \in DOMAIN reg

\* register(perturbation_cls): the registry after the call and what it raised.
RegisterCall(reg, cls) ==
    LET name == RegistrationName(cls)
    IN  IF name = <<>>
        THEN [registry |-> reg,
              raised |-> ValueError("Perturbation class must define a non-empty 'name'.", <<>>)]
        ELSE IF IsDuplicate(reg, name)
        THEN [registry |-> reg,
              raised |-> ValueError("Duplicate perturbation name", name)]
        ELSE [registry |-> RegistryInsert(reg, name, cls), raised |-> NoError]

EmptyRegistry == [k \in {} |-> ""]

RECURSIVE RegisterAll(_, _)
RegisterAll(reg, classes) ==
    IF classes = <<>> THEN reg
    ELSE RegisterAll(RegisterCall(reg, Head(classes)).registry, Tail(classes))

\* The registry once the package is imported.
ImportedRegistry == RegisterAll(EmptyRegistry, BuiltinClasses)

\* get(name) / PERTURBATION_REGISTRY[name]
Get(reg, name) == ClassById(reg[name])

(***************************************************************************)
(* Source files.  A directory is [exists, entries]: entries is the order   *)
(* in which the filesystem lists it.  A file is [name, ok, size, mode,     *)
(* decodes]: ok tells whether Image.open identifies it (it reads the       *)
(* header only), decodes whether its pixel data can be read, mode is the   *)
(* mode the header announces, size is (width, height).                     *)
(***************************************************************************)
File(name, ok, w, h) ==
    [name |-> name, ok |-> ok, size |-> <<w, h>>,
     mode |-> IF EndsWith(name, ExtPng) THEN "RGBA" ELSE "RGB", decodes |-> ok]

\* The file stored in the given mode, with an intact header and pixel data that
\* ends early.
Truncated(f, mode) == [f EXCEPT !.decodes = FALSE, !.mode = mode]

BgA == File(<<"a">> \o ExtJpg, TRUE, 4, 3)                \* a.jpg
BgAJpeg == File(<<"a">> \o ExtJpeg, TRUE, 4, 3)           \* a.jpeg
BgBUpper == File(<<"b">> \o Upper(ExtJpg), TRUE, 4, 3)    \* b.JPG
BgCorrupt == File(<<"c">> \o ExtJpg, FALSE, 0, 0)         \* c.jpg, not an image
BgDummyPng == File(<<"d">> \o ExtPng, TRUE, 4, 3)         \* d.png (dummy_bg.png)

OvP == File(<<"p">> \o ExtPng, TRUE, 2, 1)                \* p.png
OvDouble == File(<<"p">> \o ExtPng \o ExtPng, TRUE, 6, 5) \* p.png.png, larger than a background
OvCorrupt == File(<<"q">> \o ExtPng, FALSE, 0, 0)         \* q.png, not an image

BgPool == {BgA, BgAJpeg, BgCorrupt, BgDummyPng}
OvPool == {OvP, OvDouble, OvCorrupt}
GoodBgPool == {BgA, BgBUpper}
GoodOvPool == {OvP}

\* With t.jpg (RGB) and g.jpg (grayscale), both truncated.
LoadBgPool ==
    {BgA, BgCorrupt,
     Truncated(File(<<"t">> \o ExtJpg, TRUE, 4, 3), "RGB"),
     Truncated(File(<<"g">> \o ExtJpg, TRUE, 4, 3), "L")}

\* With t.png (RGBA) and u.png (palette), both truncated.
LoadOvPool ==
    {OvP, OvCorrupt,
     Truncated(File(<<"t">> \o ExtPng, TRUE, 2, 1), "RGBA"),
     Truncated(File(<<"u">> \o ExtPng, TRUE, 2, 1), "P")}

MissingDir == [exists |-> FALSE, entries |-> <<>>]

NoRepeat(l) == \A a, b \in 1..Len(l) : a # b => l[a] # l[b]

\* Every listing of at most k files of pool, in every order.
Listings(pool, k) ==
    {l \in UNION {[1..j -> pool] : j \in 0..k} : NoRepeat(l)}

Directories(pool, k) ==
    {[exists |-> TRUE, entries |-> l] : l \in Listings(pool, k)}

(***************************************************************************)
(* utils/io.py                                                             *)
(***************************************************************************)
\* directory.glob(f"*{ext}"): the entries whose name ends with ext, in listing order.
Glob(dir, ext) ==
    SelectSeq(dir.entries, LAMBDA f : EndsWith(f.name, ext))

\* iter_images(directory, extensions)
RECURSIVE IterImages(_, _)
IterImages(dir, extensions) ==
    IF ~dir.exists \/ extensions = <<>> THEN <<>>
    ELSE Glob(dir, Head(extensions)) \o Glob(dir, Upper(Head(extensions)))
         \o IterImages(dir, Tail(extensions))

\* iter_backgrounds(directory)
IterBackgrounds(dir) == IterImages(dir, <<ExtJpg, ExtJpeg>>)

\* iter_overlays(directory)
IterOverlays(dir) == IterImages(dir, <<ExtPng>>)

(***************************************************************************)
(* utils/overlay.py                                                        *)
(***************************************************************************)
\* A centre computed with a division that rounds toward zero.
CalculateCenterPositionTruncating(bgSize, ovSize) ==
    LET half(d) == IF d < 0 THEN -((-d) \div 2) ELSE d \div 2
    IN  <<half(bgSize[1] - ovSize[1]), half(bgSize[2] - ovSize[2])>>

\* calculate_center_position(background, overlay)
CalculateCenterPosition(bgSize, ovSize) ==
    <<(bgSize[1] - ovSize[1]) \div 2, (bgSize[2] - ovSize[2]) \div 2>>

(***************************************************************************)
(* The two random sources (random, numpy.random).  A stream is where it    *)
(* was seeded and how many draws it has served; a draw is identified by    *)
(* the stream state it was taken at, so two draws are equal exactly when   *)
(* they come from the same position of an equally seeded stream.           *)
(***************************************************************************)
Seeded(s) == [seeded |-> TRUE, seed |-> s, pos |-> 0]
ProcessStart == [seeded |-> FALSE, seed |-> 0, pos |-> 0]   \* seeded from OS entropy
\* A draw that leaves the stream where a fresh seeding would.
AdvanceReseeds(stream) == [stream EXCEPT !.pos = 0]

\* One block draw from a stream.
Advance(stream) == [stream EXCEPT !.pos = @ + 1]

\* Optional[int]
NoSeed == [some |-> FALSE, val |-> 0]
SomeSeed(v) == [some |-> TRUE, val |-> v]

(***************************************************************************)
(* The perturbations as run() sees them: which random source an apply      *)
(* draws from, and the descriptor it serializes.  An image is the files it *)
(* was composed of and the operations applied since, each with its draws.  *)
(***************************************************************************)
EmptyParams == [k \in {} |-> 0]

\* self.params.get(key, default)
ParamGet(params, key, default) == IF key \in DOMAIN params THEN params[key] ELSE default

\* Perturbation.__init__(**kwargs)
NewPerturbation(cls, params) == [cls |-> cls.id, params |-> params]

\* A serialize() that fills in a default the caller did not pass.
SerializeWithDefault(pert) ==
    [type |-> ClassById(pert.cls).name,
     params |-> [k \in DOMAIN pert.params \cup {"intensity"} |->
                    ParamGet(pert.params, k, 15)]]

\* Perturbation.serialize()
Serialize(pert) == [type |-> ClassById(pert.cls).name, params |-> pert.params]

\* Texture intensity is a float in the code; here it is given in hundredths.
TextureCount(params, perUnit) == (ParamGet(params, "intensity", 30) * perUnit) \div 100

\* Whether apply draws from Python's random module.
DrawsPy(pert) ==
    CASE pert.cls = ShapesPerturbation.id -> ParamGet(pert.params, "num_shapes", 15) > 0
      [] pert.cls = TexturePerturbation.id ->
            \/ ParamGet(pert.params, "type", "grain") = "scratches"
               /\ TextureCount(pert.params, 20) > 0
            \/ ParamGet(pert.params, "type", "grain") = "dirt"
               /\ TextureCount(pert.params, 15) > 0
      [] OTHER -> FALSE

\* A Texture that draws its grain before it looks at the type.
DrawsNpAnyTexture(pert) ==
    pert.cls \in {NoisePerturbation.id, TexturePerturbation.id}

\* Whether apply draws from numpy.random.
DrawsNp(pert) ==
    CASE pert.cls = NoisePerturbation.id -> TRUE
      [] pert.cls = TexturePerturbation.id -> ParamGet(pert.params, "type", "grain") = "grain"
      [] OTHER -> FALSE

\* Whether apply changes the image at all (Texture of an unknown type returns img).
IsNoOp(pert) ==
    /\ pert.cls = TexturePerturbation.id
    /\ ParamGet(pert.params, "type", "grain") \notin {"grain", "scratches", "dirt"}

\* pert.apply(img, region) with the two streams: the image and the streams after it.
Apply(pert, img, region, py, np) ==
    LET op == [type |-> ClassById(pert.cls).name, params |-> pert.params, region |-> region,
               py |-> IF DrawsPy(pert) THEN <<py>> ELSE <<>>,
               np |-> IF DrawsNp(pert) THEN <<np>> ELSE <<>>]
    IN  [img |-> IF IsNoOp(pert) THEN img ELSE [img EXCEPT !.ops = Append(@, op)],
         py |-> IF DrawsPy(pert) THEN Advance(py) ELSE py,
         np |-> IF DrawsNp(pert) THEN Advance(np) ELSE np]

(***************************************************************************)
(* pipeline.py: DatasetGenerator                                           *)
(***************************************************************************)
BgPath == <<"b", "g">>
OvPath == <<"o", "v">>

\* DatasetGenerator.__init__
DatasetGenerator(out_dir, perturbations, random_seed, save_metadata, verbose) ==
    [out_dir |-> out_dir, perturbations |-> perturbations, random_seed |-> random_seed,
     save_metadata |-> save_metadata, verbose |-> verbose]

\* perturbation_conf.get("params", {})
ConfParams(conf) == IF "params" \in DOMAIN conf THEN conf.params ELSE EmptyParams

ConfNoise == [name |-> NameNoise, params |-> [intensity |-> 5]]
ConfShapes == [name |-> NameShapes]
ConfBogus == [name |-> NameBogus]
ConfTextureUnknown ==
    [name |-> NameTexture, params |-> [type |-> "unknown_texture", intensity |-> 50]]

Chains(confs, k) == UNION {[1..j -> confs] : j \in 0..k}

EmptyFiles == [k \in {} |-> 0]

\* A file written (or overwritten) under a name.
Put(files, name, content) ==
    [k \in DOMAIN files \cup {name} |-> IF k = name THEN content ELSE files[k]]

\* A run() that leaves the random sources as it finds them.
SeedStreamNever(random_seed, stream) == stream

\* Lines 43-45: random.seed(self.random_seed), np.random.seed(self.random_seed)
SeedStream(random_seed, stream) ==
    IF random_seed.some THEN Seeded(random_seed.val) ELSE stream

\* run(), lines 52-55, with the two checks in the other order.
EmptySourceErrorSwapped(backgrounds, overlays) ==
    IF overlays = <<>> THEN ValueError("No overlay images found in", OvPath)
    ELSE IF backgrounds = <<>> THEN ValueError("No background images found in", BgPath)
    ELSE NoError

\* run(), lines 52-55
EmptySourceError(backgrounds, overlays) ==
    IF backgrounds = <<>> THEN ValueError("No background images found in", BgPath)
    ELSE IF overlays = <<>> THEN ValueError("No overlay images found in", OvPath)
    ELSE NoError

\* img = bg.copy(); img.paste(overlay, position, overlay)
Composite(bg, overlay, position) ==
    [bg |-> bg.name, ov |-> overlay.name, at |-> position, size |-> bg.size, ops |-> <<>>]

\* f"{bg_path.stem}_{ov_path.stem}_{i:03d}.png"
OutputName(bgName, ovName, i) ==
    Stem(bgName) \o Underscore \o Stem(ovName) \o Underscore \o Fmt03d(i) \o ExtPng

\* fname.replace(".png", ".json")
LabelName(fname) == Replace(fname, ExtPng, ExtJson)

\* A metadata dict that numbers the variants by the running image count.
MetadataCountsImages(g, f) ==
    [background |-> f.bg.name,
     overlay |-> f.overlay.name,
     overlay_position |-> f.position,
     overlay_size |-> f.overlay.size,
     perturbations |-> f.applied,
     random_seed |-> g.random_seed,
     variant_index |-> f.total_images]

\* The metadata dict of lines 102-110.
Metadata(g, f) ==
    [background |-> f.bg.name,
     overlay |-> f.overlay.name,
     overlay_position |-> f.position,
     overlay_size |-> f.overlay.size,
     perturbations |-> f.applied,
     random_seed |-> g.random_seed,
     variant_index |-> f.i]

NoFile == File(<<>>, FALSE, 0, 0)
NoImage == [bg |-> <<>>, ov |-> <<>>, at |-> <<0, 0>>, size |-> <<0, 0>>, ops |-> <<>>]

\* The locals of run() when no run is in progress.
IdleFrame ==
    [gen |-> 0, n_variants |-> 0, backgrounds |-> <<>>, overlays |-> <<>>,
     bi |-> 0, oi |-> 0, i |-> 0, pi |-> 0,
     bg |-> NoFile, overlay |-> NoFile, position |-> <<0, 0>>,
     img |-> NoImage, applied |-> <<>>, total_images |-> 0]

\* Where run() continues once the overlay loop's body is over.
AfterOverlay(f) ==
    IF f.oi < Len(f.overlays)
    THEN [pc |-> "ov", fr |-> [f EXCEPT !.oi = @ + 1]]
    ELSE [pc |-> "bg", fr |-> [f EXCEPT !.bi = @ + 1]]

\* Where run() continues once the variant loop's body is over.
AfterVariant(f) ==
    IF f.i + 1 < f.n_variants
    THEN [pc |-> "variant", fr |-> [f EXCEPT !.i = @ + 1]]
    ELSE AfterOverlay(f)

(***************************************************************************)
(* State.                                                                  *)
(***************************************************************************)
VARIABLES
    registry,     \* PERTURBATION_REGISTRY: name -> class id
    regRaised,    \* what the last register() call raised
    regLog,       \* the classes handed to register() so far, in call order
    bgDir,        \* the background directory
    ovDir,        \* the overlay directory
    gens,         \* the DatasetGenerator objects of the process
    fs,           \* out_dir -> [images, labels]: file name -> content
    pyRandom,     \* the state of Python's random module
    npRandom,     \* the state of numpy.random
    pc,           \* where run() stands
    fr,           \* the locals of run()
    raised,       \* the exception run() ended with
    stdout,       \* warnings and the completion report printed so far (the progress
                  \* lines of pipeline.py:114-117 change no state and are left out)
    writes,       \* the files the current run has written, in order
    runLog,       \* the finished runs: generator, n_variants, outcome, writes
    budget,       \* run() calls left
    call,         \* a direct call of a library function: the function and its arguments
    ret           \* what that call returned or raised

regVars == <<registry, regRaised, regLog>>
envVars == <<bgDir, ovDir, gens>>
runVars == <<fs, pyRandom, npRandom, pc, fr, raised, stdout, writes, runLog, budget>>
callVars == <<call, ret>>
vars == <<registry, regRaised, regLog, bgDir, ovDir, gens, fs, pyRandom, npRandom,
          pc, fr, raised, stdout, writes, runLog, budget, call, ret>>

\* No call made yet, nothing returned yet.
NoCall == [fn |-> "none"]

OutDirs == <<"run1", "run2">>

\* The process after import, with numGens generators that differ in out_dir only.
InitWith(bgDirs, ovDirs, chains, seeds, metas, verbosities, numGens, runs) ==
    /\ registry = ImportedRegistry
    /\ regRaised = NoError
    /\ regLog = BuiltinClasses
    /\ bgDir \in bgDirs
    /\ ovDir \in ovDirs
    /\ \E chain \in chains, seed \in seeds, meta \in metas, verbose \in verbosities :
          gens = [k \in 1..numGens |-> DatasetGenerator(OutDirs[k], chain, seed, meta, verbose)]
    /\ fs = [d \in {OutDirs[k] : k \in 1..numGens} |->
                [images |-> EmptyFiles, labels |-> EmptyFiles]]
    /\ pyRandom = ProcessStart
    /\ npRandom = ProcessStart
    /\ pc = "idle"
    /\ fr = IdleFrame
    /\ raised = NoError
    /\ stdout = <<>>
    /\ writes = <<>>
    /\ runLog = <<>>
    /\ budget = runs
    /\ call = NoCall
    /\ ret = NoCall

(***************************************************************************)
(* run(n_variants), one action per step.                                   *)
(***************************************************************************)
Finished(k, n, outcome, w) == [gen |-> k, n_variants |-> n, outcome |-> outcome, writes |-> w]

\* Lines 40-57: seed, enumerate, reject empty source sets.
Run(k, n) ==
    /\ pc \in {"idle", "done", "raised"}
    /\ budget > 0
    /\ budget' = budget - 1
    /\ LET g == gens[k]
           backgrounds == IterBackgrounds(bgDir)
           overlays == IterOverlays(ovDir)
           err == EmptySourceError(backgrounds, overlays)
       IN  /\ pyRandom' = SeedStream(g.random_seed, pyRandom)
           /\ npRandom' = SeedStream(g.random_seed, npRandom)
           /\ writes' = <<>>
           /\ raised' = err
           /\ IF err # NoError
              THEN /\ pc' = "raised"
                   /\ fr' = IdleFrame
                   /\ runLog' = Append(runLog, Finished(k, n, "raised", <<>>))
              ELSE /\ pc' = "bg"
                   /\ fr' = [IdleFrame EXCEPT !.gen = k, !.n_variants = n,
                                              !.backgrounds = backgrounds,
                                              !.overlays = overlays, !.bi = 1]
                   /\ UNCHANGED runLog
    /\ UNCHANGED <<callVars, regVars, envVars, fs, stdout>>

\* ensure_rgb(Image.open(path)) / ensure_rgba(Image.open(path)) inside the try block:
\* Image.open fails on a file it cannot identify; convert() reads the pixel data,
\* while an image already in the wanted mode is returned without being decoded.
Opens(f, wanted) == f.ok /\ (f.mode # wanted => f.decodes)

Warning(what, file) == [kind |-> "warning", what |-> what, path |-> file.name, total |-> 0]

\* Lines 58-64: the next background is opened; one that fails to load is skipped.
LoadBackground ==
    /\ pc = "bg"
    /\ fr.bi <= Len(fr.backgrounds)
    /\ LET f == fr.backgrounds[fr.bi]
       IN  IF Opens(f, "RGB")
           THEN /\ pc' = "ov"
                /\ fr' = [fr EXCEPT !.bg = f, !.oi = 1]
                /\ UNCHANGED stdout
           ELSE /\ pc' = "bg"
                /\ fr' = [fr EXCEPT !.bi = @ + 1]
                /\ stdout' = IF gens[fr.gen].verbose
                             THEN Append(stdout, Warning("background", f))
                             ELSE stdout
    /\ UNCHANGED <<callVars, regVars, envVars, fs, pyRandom, npRandom, raised, writes, runLog, budget>>

\* Lines 66-75: the next overlay is opened and placed; one that fails to load is skipped.
LoadOverlay ==
    /\ pc = "ov"
    /\ LET f == fr.overlays[fr.oi]
           placed == [fr EXCEPT !.overlay = f,
                                !.position = CalculateCenterPosition(fr.bg.size, f.size),
                                !.i = 0]
           next == IF ~Opens(f, "RGBA") THEN AfterOverlay(fr)
                   ELSE IF placed.n_variants <= 0 THEN AfterOverlay(placed)
                   ELSE [pc |-> "variant", fr |-> placed]
       IN  /\ pc' = next.pc
           /\ fr' = next.fr
           /\ stdout' = IF ~Opens(f, "RGBA") /\ gens[fr.gen].verbose
                        THEN Append(stdout, Warning("overlay", f))
                        ELSE stdout
    /\ UNCHANGED <<callVars, regVars, envVars, fs, pyRandom, npRandom, raised, writes, runLog, budget>>

\* bg.copy() and img.paste(overlay, position, overlay) read the pixel data of an
\* image that was opened without being decoded; this happens outside the try blocks.
CompositeError(bg, overlay) ==
    IF ~bg.decodes THEN OSError("image file is truncated", bg.name)
    ELSE IF ~overlay.decodes THEN OSError("image file is truncated", overlay.name)
    ELSE NoError

\* A variant loop that copies and pastes for the first variant only and hands the
\* later variants the image the previous one left.
BeginVariantReusesImage ==
    /\ pc = "variant"
    /\ LET err == CompositeError(fr.bg, fr.overlay)
       IN  /\ raised' = err
           /\ IF err # NoError
              THEN /\ pc' = "raised"
                   /\ fr' = IdleFrame
                   /\ runLog' = Append(runLog,
                                       Finished(fr.gen, fr.n_variants, "raised", writes))
              ELSE /\ fr' = [fr EXCEPT !.img = IF fr.i = 0
                                              THEN Composite(fr.bg, fr.overlay, fr.position)
                                              ELSE fr.img,
                                       !.applied = <<>>, !.pi = 1]
                   /\ pc' = IF gens[fr.gen].perturbations = <<>>
                            THEN "save_image" ELSE "chain"
                   /\ UNCHANGED runLog
    /\ UNCHANGED <<callVars, regVars, envVars, fs, pyRandom, npRandom, stdout, writes, budget>>

\* Lines 79-83: the composite of this variant and an empty descriptor list.
BeginVariant ==
    /\ pc = "variant"
    /\ LET err == CompositeError(fr.bg, fr.overlay)
       IN  /\ raised' = err
           /\ IF err # NoError
              THEN /\ pc' = "raised"
                   /\ fr' = IdleFrame
                   /\ runLog' = Append(runLog,
                                       Finished(fr.gen, fr.n_variants, "raised", writes))
              ELSE /\ fr' = [fr EXCEPT !.img = Composite(fr.bg, fr.overlay, fr.position),
                                       !.applied = <<>>, !.pi = 1]
                   /\ pc' = IF gens[fr.gen].perturbations = <<>>
                            THEN "save_image" ELSE "chain"
                   /\ UNCHANGED runLog
    /\ UNCHANGED <<callVars, regVars, envVars, fs, pyRandom, npRandom, stdout, writes, budget>>

\* Lines 73-75 and 91: the region (bx, by, ow, oh) handed to apply.
RegionOf(f) == <<f.position[1], f.position[2], f.overlay.size[1], f.overlay.size[2]>>

\* A chain loop that skips a name it does not know.
ChainStepSkipsUnknown(conf, f, reg, py, np) ==
    IF conf.name \notin DOMAIN reg
    THEN [raised |-> NoError, fr |-> f, py |-> py, np |-> np]
    ELSE LET pert == NewPerturbation(Get(reg, conf.name), ConfParams(conf))
             out == Apply(pert, f.img, RegionOf(f), py, np)
         IN  [raised |-> NoError,
              fr |-> [f EXCEPT !.img = out.img, !.applied = Append(@, Serialize(pert))],
              py |-> out.py, np |-> out.np]

\* Lines 85-92: one entry of the chain.
ChainStep(conf, f, reg, py, np) ==
    IF conf.name \notin DOMAIN reg
    THEN [raised |-> ValueError("Unknown perturbation", conf.name),
          fr |-> f, py |-> py, np |-> np]
    ELSE LET pert == NewPerturbation(Get(reg, conf.name), ConfParams(conf))
             out == Apply(pert, f.img, RegionOf(f), py, np)
         IN  [raised |-> NoError,
              fr |-> [f EXCEPT !.img = out.img, !.applied = Append(@, Serialize(pert))],
              py |-> out.py, np |-> out.np]

\* Lines 84-92: the next entry of the chain is looked up, built, applied, serialized.
ApplyPerturbation ==
    /\ pc = "chain"
    /\ LET chain == gens[fr.gen].perturbations
           step == ChainStep(chain[fr.pi], fr, registry, pyRandom, npRandom)
       IN  /\ raised' = step.raised
           /\ pyRandom' = step.py
           /\ npRandom' = step.np
           /\ IF step.raised # NoError
              THEN /\ pc' = "raised"
                   /\ fr' = IdleFrame
                   /\ runLog' = Append(runLog,
                                       Finished(fr.gen, fr.n_variants, "raised", writes))
              ELSE /\ pc' = IF fr.pi < Len(chain) THEN "chain" ELSE "save_image"
                   /\ fr' = [step.fr EXCEPT !.pi = @ + 1]
                   /\ UNCHANGED runLog
    /\ UNCHANGED <<callVars, regVars, envVars, fs, stdout, writes, budget>>

Written(dir, name, content, f) ==
    [dir |-> dir, name |-> name, content |-> content,
     tuple |-> <<f.bg.name, f.overlay.name, f.i>>]

\* A run that goes on to the metadata without having written the image.
SaveImageDeferred ==
    /\ pc = "save_image"
    /\ pc' = "save_metadata"
    /\ UNCHANGED <<callVars, regVars, envVars, fs, fr, pyRandom, npRandom, raised, stdout,
                   writes, runLog, budget>>

\* Lines 95-98 (and 113 when no metadata is saved): the image is written.
SaveImage ==
    /\ pc = "save_image"
    /\ LET g == gens[fr.gen]
           fname == OutputName(fr.bg.name, fr.overlay.name, fr.i)
           next == AfterVariant([fr EXCEPT !.total_images = @ + 1])
       IN  /\ fs' = [fs EXCEPT ![g.out_dir].images = Put(@, fname, fr.img)]
           /\ writes' = Append(writes, Written("images", fname, fr.img, fr))
           /\ IF g.save_metadata
              THEN pc' = "save_metadata" /\ fr' = fr
              ELSE pc' = next.pc /\ fr' = next.fr
    /\ UNCHANGED <<callVars, regVars, envVars, pyRandom, npRandom, raised, stdout, runLog, budget>>

\* Lines 101-113: the metadata record is written beside the image.
SaveMetadata ==
    /\ pc = "save_metadata"
    /\ LET g == gens[fr.gen]
           fname == OutputName(fr.bg.name, fr.overlay.name, fr.i)
           metadata == Metadata(g, fr)
           next == AfterVariant([fr EXCEPT !.total_images = @ + 1])
       IN  /\ fs' = [fs EXCEPT ![g.out_dir].labels = Put(@, LabelName(fname), metadata)]
           /\ writes' = Append(writes, Written("labels", LabelName(fname), metadata, fr))
           /\ pc' = next.pc
           /\ fr' = next.fr
    /\ UNCHANGED <<callVars, regVars, envVars, pyRandom, npRandom, raised, stdout, runLog, budget>>

\* Line 119: the sweep is over.
Complete ==
    /\ pc = "bg"
    /\ fr.bi > Len(fr.backgrounds)
    /\ pc' = "done"
    /\ stdout' = Append(stdout, [kind |-> "complete", what |-> "", path |-> <<>>,
                                 total |-> fr.total_images])
    /\ runLog' = Append(runLog, Finished(fr.gen, fr.n_variants, "done", writes))
    /\ fr' = IdleFrame
    /\ UNCHANGED <<callVars, regVars, envVars, fs, pyRandom, npRandom, raised, writes, budget>>

RunStep ==
    \/ \E k \in DOMAIN gens, n \in 0..MaxVariants : Run(k, n)
    \/ LoadBackground
    \/ LoadOverlay
    \/ BeginVariant
    \/ ApplyPerturbation
    \/ SaveImage
    \/ SaveMetadata
    \/ Complete

(***************************************************************************)
(* One run over every kind of source directory.                            *)
(***************************************************************************)
Init ==
    InitWith(Directories(BgPool, MaxBg) \cup {MissingDir},
             Directories(OvPool, MaxOv) \cup {MissingDir},
             Chains({ConfNoise, ConfBogus}, MaxChain),
             {NoSeed, SomeSeed(42)}, BOOLEAN, BOOLEAN, 1, 1)

Next == RunStep

Spec == Init /\ [][Next]_vars

(***************************************************************************)
(* Several runs of two equally configured generators over loadable files.  *)
(***************************************************************************)
InitRuns ==
    InitWith(Directories(GoodBgPool, MaxBg), Directories(GoodOvPool, MaxOv),
             {<<>>, <<ConfNoise>>, <<ConfShapes>>, <<ConfNoise, ConfShapes>>},
             {NoSeed, SomeSeed(42)}, {TRUE}, {FALSE}, 2, MaxRuns)

SpecRuns == InitRuns /\ [][Next]_vars

(***************************************************************************)
(* register() calls after import.                                          *)
(***************************************************************************)
Register(cls) ==
    /\ pc = "idle"
    /\ Len(regLog) < Len(BuiltinClasses) + MaxCalls
    /\ LET out == RegisterCall(registry, cls)
       IN  /\ registry' = out.registry
           /\ regRaised' = out.raised
    /\ regLog' = Append(regLog, cls)
    /\ UNCHANGED <<callVars, envVars, runVars>>

InitReg ==
    InitWith({MissingDir}, {MissingDir}, {<<>>}, {NoSeed}, {TRUE}, {FALSE}, 1, 0)

NextReg == \E cls \in UserClasses : Register(cls)

SpecReg == InitReg /\ [][NextReg]_vars

(***************************************************************************)
(* One run over files that open but do not decode.                         *)
(***************************************************************************)
SpecLoad ==
    /\ InitWith(Directories(LoadBgPool, MaxBg), Directories(LoadOvPool, MaxOv),
                {<<>>, <<ConfNoise>>}, {SomeSeed(42)}, {TRUE}, BOOLEAN, 1, 1)
    /\ [][Next]_vars

(***************************************************************************)
(* One run whose chain holds Texture entries.                              *)
(***************************************************************************)
TextureChains ==
    {<<ConfTextureUnknown, ConfNoise>>,
     <<ConfNoise, ConfTextureUnknown, ConfShapes>>,
     <<ConfTextureUnknown>>,
     <<[name |-> NameTexture], ConfNoise>>,
     <<[name |-> NameTexture, params |-> [type |-> "scratches", intensity |-> 50]],
       ConfShapes>>}

SpecTexture ==
    /\ InitWith(Directories(GoodBgPool, MaxBg), Directories(GoodOvPool, MaxOv),
                TextureChains, {NoSeed, SomeSeed(42)}, {TRUE}, {FALSE}, 1, 1)
    /\ [][Next]_vars

(***************************************************************************)
(* Images at sample level, for direct calls of apply.  An image is [mode,  *)
(* size, at]: size is (width, height) and at maps the index of a sample,   *)
(* (row, column) for mode "L" and (row, column, channel) otherwise, to its *)
(* 8-bit value.  An array is [shape, at] over the same indices.            *)
(***************************************************************************)
MaxSide == 2

Min(a, b) == IF a < b THEN a ELSE b
Max(a, b) == IF a > b THEN a ELSE b

\* Bands of the PIL modes.
Channels(mode) == CASE mode = "L" -> 1 [] mode = "RGB" -> 3 [] mode = "RGBA" -> 4

Indices(shape) ==
    IF Len(shape) = 2
    THEN (0..(shape[1] - 1)) \X (0..(shape[2] - 1))
    ELSE (0..(shape[1] - 1)) \X (0..(shape[2] - 1)) \X (0..(shape[3] - 1))

\* np.array(img): (height, width) for a single band, (height, width, bands) otherwise.
NpArray(img) ==
    [shape |-> IF img.mode = "L" THEN <<img.size[2], img.size[1]>>
               ELSE <<img.size[2], img.size[1], Channels(img.mode)>>,
     at |-> img.at]

\* Image.fromarray(arr): the mode follows from the shape of the uint8 array.
FromArray(arr) ==
    [mode |-> IF Len(arr.shape) = 2 THEN "L"
              ELSE IF arr.shape[3] = 3 THEN "RGB" ELSE "RGBA",
     size |-> <<arr.shape[2], arr.shape[1]>>,
     at |-> arr.at]

\* The indices a Python slice start:stop selects on an axis of length n.
PySlice(start, stop, n) ==
    LET lo == IF start < 0 THEN Max(start + n, 0) ELSE Min(start, n)
        hi == IF stop < 0 THEN Max(stop + n, 0) ELSE Min(stop, n)
    IN  lo..(hi - 1)

\* The whole array, whatever the region.
SliceIndicesWhole(arr, region) == Indices(arr.shape)

\* The indices of arr[y : y + h, x : x + w].
SliceIndices(arr, region) ==
    {idx \in Indices(arr.shape) :
        /\ idx[1] \in PySlice(region[2], region[2] + region[4], arr.shape[1])
        /\ idx[2] \in PySlice(region[1], region[1] + region[3], arr.shape[2])}

\* The shape of arr[y : y + h, x : x + w].
SliceShape(arr, region) ==
    LET rows == Cardinality(PySlice(region[2], region[2] + region[4], arr.shape[1]))
        cols == Cardinality(PySlice(region[1], region[1] + region[3], arr.shape[2]))
    IN  IF Len(arr.shape) = 2 THEN <<rows, cols>> ELSE <<rows, cols, arr.shape[3]>>

\* The first row and column of arr[y : y + h, x : x + w] within arr.
SliceOrigin(arr, region) ==
    LET rows == PySlice(region[2], region[2] + region[4], arr.shape[1])
        cols == PySlice(region[1], region[1] + region[3], arr.shape[2])
    IN  <<IF rows = {} THEN 0 ELSE CHOOSE r \in rows : \A q \in rows : r <= q,
          IF cols = {} THEN 0 ELSE CHOOSE c \in cols : \A q \in cols : c <= q>>

\* np.clip(v, 0, 255)
Clip(v, lo, hi) == Max(lo, Min(hi, v))

\* A value stored as int16: two's complement, 16 bits.
Int16(v) == ((v + 32768) % 65536) - 32768

(***************************************************************************)
(* apply at sample level.  rnd tells what the random sources yield during  *)
(* the call: the lowest value of the requested range ("low"), the highest  *)
(* ("high") or the middle one ("mid").                                     *)
(***************************************************************************)
\* np.random.randint(low, high): a value of [low, high).
NpRandInt(rnd, low, high) ==
    CASE rnd = "low" -> low
      [] rnd = "high" -> high - 1
      [] OTHER -> (low + high) \div 2

\* random.randint(a, b): a value of [a, b].
PyRandInt(rnd, a, b) == NpRandInt(rnd, a, b + 1)

\* NoisePerturbation.apply(img, region)
NoiseApply(params, img, region, rnd) ==
    LET intensity == ParamGet(params, "intensity", 15)
        scope == ParamGet(params, "scope", "region")
        arr == NpArray(img)
        target == IF scope = "global" THEN Indices(arr.shape) ELSE SliceIndices(arr, region)
        n == NpRandInt(rnd, -intensity, intensity)
    IN  IF intensity <= 0
        THEN Raised("apply", ValueError("low >= high", <<>>))
        ELSE IF intensity > 32768
        THEN Raised("apply", ValueError("high is out of bounds for int16", <<>>))
        ELSE Returned("apply",
                      FromArray([arr EXCEPT !.at =
                          [idx \in DOMAIN @ |->
                              \* np.clip(v.astype("int16") + noise, 0, 255)
                              IF idx \in target THEN Clip(Int16(@[idx] + n), 0, 255)
                              ELSE @[idx]]]))

\* np.sin in fixed point: x is in thousandths of a radian, the result in
\* thousandths.  x is reduced to [-pi/2, pi/2] and the series is summed to x^7.
Sin(x) ==
    LET r == x % 6283
        a == IF r <= 1571 THEN r ELSE IF r <= 4712 THEN 3142 - r ELSE r - 6283
        a2 == (a * a) \div 1000
        t3 == 1000 - a2 \div 42
        t2 == 1000 - ((a2 * t3) \div 1000) \div 20
        t1 == 1000 - ((a2 * t2) \div 1000) \div 6
    IN  (a * t1) \div 1000

\* np.cos in fixed point.
Cos(x) == Sin(x + 1571)

\* Lines 25-29 and 38-42: the source coordinate (dx, dy), in thousandths of a pixel,
\* that the maps of a w x h grid hold for the destination pixel (px, py).
WarpMaps(intensity, frequency, px, py, w, h) ==
    LET dx == 1000 * px + Sin((1000 * py) \div frequency) * intensity
        dy == 1000 * py + Cos(dx \div frequency) * intensity
    IN  <<Clip(dx, 0, 1000 * (w - 1)), Clip(dy, 0, 1000 * (h - 1))>>

\* Where cv2.remap reads the sample it writes at idx of an h x w map: the pixel the
\* source coordinate lies in.  With intensity 0 the maps are the identity; the
\* interpolation weights toward the next column and row are dropped.
WarpSource(params, idx, h, w) ==
    LET at == WarpMaps(ParamGet(params, "intensity", 5), ParamGet(params, "frequency", 20),
                       idx[2], idx[1], w, h)
    IN  [idx EXCEPT ![1] = at[2] \div 1000, ![2] = at[1] \div 1000]

\* WarpPerturbation.apply(img, region)
WarpApply(params, img, region) ==
    LET scope == ParamGet(params, "scope", "region")
        arr == NpArray(img)
        w == region[3]
        h == region[4]
        from == SliceShape(arr, region)
        origin == SliceOrigin(arr, region)
        \* cv2.remap(region_arr, dx, dy): BORDER_CONSTANT where the map leaves region_arr
        warped(idx) ==
            LET s == WarpSource(params, idx, h, w)
            IN  IF s[1] < from[1] /\ s[2] < from[2]
                THEN arr.at[[s EXCEPT ![1] = @ + origin[1], ![2] = @ + origin[2]]]
                ELSE 0
        \* the sample of warped_region that lands at idx of arr
        landing(idx) ==
            warped([idx EXCEPT ![1] = IF h = 1 THEN 0 ELSE @ - origin[1],
                               ![2] = IF w = 1 THEN 0 ELSE @ - origin[2]])
    IN  IF Len(arr.shape) # 3
        THEN Raised("apply",
                    ValueError("not enough values to unpack (expected 3, got 2)", <<>>))
        ELSE IF scope = "global"
        THEN Returned("apply",
                      FromArray([arr EXCEPT !.at =
                          [idx \in DOMAIN @ |->
                              @[WarpSource(params, idx, arr.shape[1], arr.shape[2])]]]))
        ELSE IF from[1] = 0 \/ from[2] = 0 \/ w <= 0 \/ h <= 0
        THEN Raised("apply", [kind |-> "cv2.error", msg |-> "empty source or map", arg |-> <<>>])
        \* arr[y:y+h, x:x+w] = warped_region: an axis must match or have length 1
        ELSE IF ~(h \in {1, from[1]} /\ w \in {1, from[2]})
        THEN Raised("apply", ValueError("could not broadcast input array", <<>>))
        ELSE Returned("apply",
                      FromArray([arr EXCEPT !.at =
                          [idx \in DOMAIN @ |->
                              IF idx \in SliceIndices(arr, region)
                              THEN landing(idx) ELSE @[idx]]]))

\* ImageDraw.Draw(img, "RGBA") accepts an RGBA image, and an RGB one for blending.
DrawError(img) ==
    IF img.mode \in {"RGB", "RGBA"} THEN NoError ELSE ValueError("mode mismatch", <<>>)

\* The pixels (x, y) of the box from (x1, y1) to (x2, y2), both corners included.
Box(x1, y1, x2, y2) ==
    {p \in (Min(x1, x2)..Max(x1, x2)) \X (Min(y1, y2)..Max(y1, y2)) : TRUE}

\* draw.<shape>(..., fill=(grey, grey, grey, alpha)) over the covered pixels: an RGB
\* image is blended with the fill, an RGBA image takes the fill as it is.
Ink(img, covered, grey, alpha) ==
    [img EXCEPT !.at =
        [idx \in DOMAIN @ |->
            IF <<idx[2], idx[1]>> \notin covered THEN @[idx]
            ELSE IF img.mode = "RGBA" THEN (IF idx[3] = 3 THEN alpha ELSE grey)
            ELSE (@[idx] * (255 - alpha) + grey * alpha) \div 255]]

\* Lines 30-31: the top-left anchor (sx, sy) of a shape.
ShapeAnchor(region, rnd) ==
    <<PyRandInt(rnd, region[1], region[1] + region[3]),
      PyRandInt(rnd, region[2], region[2] + region[4])>>

\* ShapesPerturbation.apply(img, region); the shape drawn is the rectangle.
ShapesApply(params, img, region, rnd) ==
    LET w == region[3]
        h == region[4]
        num_shapes == ParamGet(params, "num_shapes", 15)
        min_size == ParamGet(params, "min_size", 2)
        max_size == ParamGet(params, "max_size", 10)
        sx == ShapeAnchor(region, rnd)[1]
        sy == ShapeAnchor(region, rnd)[2]
        size == PyRandInt(rnd, min_size, max_size)
    IN  IF DrawError(img) # NoError THEN Raised("apply", DrawError(img))
        ELSE IF num_shapes <= 0 THEN Returned("apply", img)
        ELSE IF w < 0 \/ h < 0 \/ max_size < min_size
        THEN Raised("apply", ValueError("empty range for randrange()", <<>>))
        ELSE Returned("apply", Ink(img, Box(sx, sy, sx + size, sy + size), 0, 255))

\* TexturePerturbation._apply_grain: the normal draw is one standard deviation
\* below the mean ("low"), above it ("high") or the mean.
GrainApply(intensity, img, region, rnd) ==
    LET arr == NpArray(img)
        sigma == (intensity * 255) \div 100
        grain == NpRandInt(rnd, -sigma, sigma + 1)
    IN  Returned("apply",
                 FromArray([arr EXCEPT !.at =
                     [idx \in DOMAIN @ |->
                         IF idx \in SliceIndices(arr, region)
                         THEN Clip(@[idx] + grain, 0, 255) ELSE @[idx]]]))

\* TexturePerturbation._apply_scratches
ScratchesApply(params, img, region, rnd) ==
    LET x == region[1]
        y == region[2]
        w == region[3]
        h == region[4]
        intensity == ParamGet(params, "intensity", 30)
        sx1 == PyRandInt(rnd, x, x + w - 1)
        sy1 == PyRandInt(rnd, y, y + h - 1)
        sx2 == Max(x, Min(x + w, sx1 + PyRandInt(rnd, -20, 20)))
        sy2 == Max(y, Min(y + h, sy1 + PyRandInt(rnd, -20, 20)))
    IN  IF DrawError(img) # NoError THEN Raised("apply", DrawError(img))
        ELSE IF TextureCount(params, 20) <= 0 THEN Returned("apply", img)
        ELSE IF w < 1 \/ h < 1
        THEN Raised("apply", ValueError("empty range for randrange()", <<>>))
        ELSE Returned("apply", Ink(img, {<<sx1, sy1>>, <<sx2, sy2>>}, 0,
                                   (intensity * 128) \div 100))

\* TexturePerturbation._apply_dirt; the spot is drawn as its bounding box.
DirtApply(params, img, region, rnd) ==
    LET x == region[1]
        y == region[2]
        w == region[3]
        h == region[4]
        intensity == ParamGet(params, "intensity", 30)
        spot_x == PyRandInt(rnd, x, x + w - 5)
        spot_y == PyRandInt(rnd, y, y + h - 5)
        spot_size == PyRandInt(rnd, 2, 8)
    IN  IF DrawError(img) # NoError THEN Raised("apply", DrawError(img))
        ELSE IF TextureCount(params, 15) <= 0 THEN Returned("apply", img)
        ELSE IF w < 5 \/ h < 5
        THEN Raised("apply", ValueError("empty range for randrange()", <<>>))
        ELSE Returned("apply", Ink(img, Box(spot_x, spot_y, spot_x + spot_size,
                                            spot_y + spot_size),
                                   PyRandInt(rnd, 20, 60), intensity))

\* TexturePerturbation.apply(img, region)
TextureApply(params, img, region, rnd) ==
    LET texture_type == ParamGet(params, "type", "grain")
    IN  CASE texture_type = "grain" ->
                GrainApply(ParamGet(params, "intensity", 30), img, region, rnd)
          [] texture_type = "scratches" -> ScratchesApply(params, img, region, rnd)
          [] texture_type = "dirt" -> DirtApply(params, img, region, rnd)
          [] OTHER -> Returned("apply", img)

\* pert.apply(img, region) for the four built-in classes.
ApplyAtSamples(pert, img, region, rnd) ==
    CASE pert.cls = NoisePerturbation.id -> NoiseApply(pert.params, img, region, rnd)
      [] pert.cls = WarpPerturbation.id -> WarpApply(pert.params, img, region)
      [] pert.cls = ShapesPerturbation.id -> ShapesApply(pert.params, img, region, rnd)
      [] pert.cls = TexturePerturbation.id -> TextureApply(pert.params, img, region, rnd)

(***************************************************************************)
(* Direct calls of the library: a perturbation is constructed and          *)
(* serialized, the descriptor is fed back to the constructor.              *)
(***************************************************************************)
\* The classes and the keyword arguments a caller constructs a perturbation with.
SerializeCalls ==
    {[fn |-> "serialize", cls |-> cls.id, kwargs |-> kw, again |-> FALSE, first |-> <<>>] :
        cls \in {BuiltinClasses[k] : k \in 1..Len(BuiltinClasses)}
                    \cup {Unnamed, Blur, PaddedBlur},
        kw \in {EmptyParams,
                [intensity |-> 5],
                [intensity |-> 5, scope |-> "global"],
                [num_shapes |-> 15, min_size |-> 3, max_size |-> 8],
                [type |-> "scratches", intensity |-> 50],
                [frequency |-> 20],
                [colour |-> "red"]}}

\* cls(**kwargs).serialize()
SerializeCall ==
    /\ call.fn = "serialize"
    /\ ret = NoCall
    /\ ret' = Returned("serialize",
                       Serialize(NewPerturbation(ClassById(call.cls), call.kwargs)))
    /\ UNCHANGED <<call, regVars, envVars, runVars>>

\* The descriptor's params become the keyword arguments of a new instance.
Reconstruct ==
    /\ call.fn = "serialize"
    /\ ret.fn = "serialize"
    /\ ~call.again
    /\ call' = [call EXCEPT !.kwargs = ret.value.params, !.again = TRUE,
                            !.first = ret.value]
    /\ ret' = NoCall
    /\ UNCHANGED <<regVars, envVars, runVars>>

\* Image.new(mode, size, "white"); "ramp" is an image whose samples all differ.
NewImage(mode, size, fill) ==
    LET shape == IF mode = "L" THEN <<size[2], size[1]>>
                 ELSE <<size[2], size[1], Channels(mode)>>
        sample(idx) ==
            IF fill = "white" THEN 255
            ELSE 100 + 20 * idx[1] + 5 * idx[2] + (IF Len(idx) = 3 THEN idx[3] ELSE 0)
    IN  [mode |-> mode, size |-> size, at |-> [idx \in Indices(shape) |-> sample(idx)]]

\* The (width, height) pairs of the images and overlays of the calls.
Sizes == (1..MaxSide) \X (1..MaxSide)

\* Every region of positive area within an image of the given size, one that
\* overhangs it on every side (an overlay larger than the background, centred),
\* and one that overhangs it on the right.
Regions(size) ==
    {r \in (0..size[1]) \X (0..size[2]) \X (1..size[1]) \X (1..size[2]) :
        r[1] + r[3] <= size[1] /\ r[2] + r[4] <= size[2]}
    \cup {<<-1, -1, size[1] + 2, size[2] + 2>>, <<0, 0, size[1] + 1, size[2]>>}

AppliedPerturbations ==
    {NewPerturbation(NoisePerturbation, p) :
        p \in {EmptyParams, [intensity |-> 5], [intensity |-> 100], [intensity |-> 32767],
               [intensity |-> 0], [intensity |-> 5, scope |-> "global"]}}
    \cup {NewPerturbation(WarpPerturbation, p) :
        p \in {EmptyParams, [intensity |-> 0], [scope |-> "global"],
               [intensity |-> 2, frequency |-> 1]}}
    \cup {NewPerturbation(ShapesPerturbation, p) :
        p \in {[num_shapes |-> 1, min_size |-> 1, max_size |-> 1], [num_shapes |-> 0]}}
    \cup {NewPerturbation(TexturePerturbation, p) :
        p \in {EmptyParams, [type |-> "scratches", intensity |-> 5],
               [type |-> "dirt", intensity |-> 5], [type |-> "dirt", intensity |-> 30],
               [type |-> "unknown_texture", intensity |-> 50]}}

\* The calls of apply on the images of one size.
ApplyCalls(size) ==
    {[fn |-> "apply", pert |-> pert, img |-> NewImage(mode, size, fill),
      region |-> region, rnd |-> rnd] :
         pert \in AppliedPerturbations, mode \in {"L", "RGB", "RGBA"},
         fill \in {"white", "ramp"}, region \in Regions(size),
         rnd \in {"low", "mid", "high"}}

\* pert.apply(img, region)
ApplyCall ==
    /\ call.fn = "apply"
    /\ ret = NoCall
    /\ ret' = ApplyAtSamples(call.pert, call.img, call.region, call.rnd)
    /\ UNCHANGED <<call, regVars, envVars, runVars>>

CenterCalls ==
    {[fn |-> "calculate_center_position", background |-> bg, overlay |-> ov] :
        bg \in Sizes, ov \in Sizes}

\* calculate_center_position(background, overlay)
CenterCall ==
    /\ call.fn = "calculate_center_position"
    /\ ret = NoCall
    /\ ret' = Returned("calculate_center_position",
                       CalculateCenterPosition(call.background, call.overlay))
    /\ UNCHANGED <<call, regVars, envVars, runVars>>

(***************************************************************************)
(* config.py.  A configuration value is a record tagged with its type: a   *)
(* dict holds a function from its keys to values, a list a sequence.       *)
(***************************************************************************)
None == [type |-> "NoneType"]

PyInt(n) == [type |-> "int", int |-> n]

PyStr(s) == [type |-> "str", str |-> s]

PyBool(b) == [type |-> "bool", bool |-> b]

PyList(elems) == [type |-> "list", elems |-> elems]

PyDict(items) == [type |-> "dict", items |-> items]

\* {}
EmptyDict == PyDict([k \in {} |-> None])

\* {"name": name, "params": params}
ConfEntry(name, params) == PyDict([name |-> PyStr(name), params |-> PyDict(params)])

DEFAULTS ==
    PyDict([dataset |-> PyDict([backgrounds |-> PyStr("./backgrounds"),
                                overlays |-> PyStr("./overlays"),
                                output |-> PyStr("./dataset"),
                                n_variants |-> PyInt(10),
                                random_seed |-> PyInt(1337)]),
            perturbations |->
                PyList(<<ConfEntry("shapes", [num_shapes |-> PyInt(20), min_size |-> PyInt(2),
                                              max_size |-> PyInt(15)]),
                         ConfEntry("noise", [intensity |-> PyInt(25)])>>),
            logging |-> PyDict([level |-> PyStr("INFO"), save_metadata |-> PyBool(TRUE)])])

\* A merge that lets a section of the override replace the section of the base.
DeepMergeShallow(base, override) ==
    LET set == {k \in DOMAIN override.items : override.items[k] # None}
    IN  PyDict([k \in DOMAIN base.items \cup set |->
                       IF k \in set THEN override.items[k] ELSE base.items[k]])

\* _deep_merge(base, override)
RECURSIVE DeepMerge(_, _)
DeepMerge(base, override) ==
    LET merged == {k \in DOMAIN override.items :
                      /\ k \in DOMAIN base.items
                      /\ base.items[k].type = "dict"
                      /\ override.items[k].type = "dict"}
        set == {k \in DOMAIN override.items \ merged : override.items[k] # None}
    IN  PyDict([k \in DOMAIN base.items \cup set |->
                       IF k \in merged THEN DeepMerge(base.items[k], override.items[k])
                       ELSE IF k \in set THEN override.items[k]
                       ELSE base.items[k]])

\* A path is None or a file [exists, suffix, content]; content is what
\* the parser returns for the file's text.
LoadFile(path) ==
    IF ~path.exists THEN Raised("load_config", [kind |-> "FileNotFoundError",
                                                msg |-> "Config file not found", arg |-> <<>>])
    ELSE IF path.suffix \in {".yaml", ".yml"}
         THEN Returned("load_config", IF path.content = None THEN EmptyDict
                                      ELSE path.content)
    ELSE IF path.suffix = ".json" THEN Returned("load_config", path.content)
    ELSE Raised("load_config", ValueError("Unsupported config format", path.suffix))

\* The dict load_config builds from the overrides of the command line.
OverrideDict(cli) ==
    LET has(k) == k \in DOMAIN cli.items /\ cli.items[k] # None
        on(k) == k \in DOMAIN cli.items /\ cli.items[k] = PyBool(TRUE)
        dataset == [k \in {c \in {"n_variants", "random_seed"} :
                              has(IF c = "random_seed" THEN "seed" ELSE c)} |->
                       cli.items[IF k = "random_seed" THEN "seed" ELSE k]]
        logging == [k \in {c \in {"level"} : on("verbose") \/ on("debug")} |-> PyStr("DEBUG")]
    IN  PyDict([s \in {c \in {"dataset"} : DOMAIN dataset # {}}
                          \cup {c \in {"logging"} : DOMAIN logging # {}} |->
                       PyDict(IF s = "dataset" THEN dataset ELSE logging)])

\* load_config(path, cli_overrides=cli_overrides)
LoadConfig(path, cli) ==
    LET file == IF path = None THEN Returned("load_config", EmptyDict)
                ELSE LoadFile(path)
        merges == file.raised = NoError /\ file.value.type = "dict"
        cfg == IF merges THEN DeepMerge(DEFAULTS, file.value) ELSE DEFAULTS
    IN  IF file.raised # NoError THEN file
        ELSE IF ~merges
             THEN Raised("load_config", [kind |-> "AttributeError",
                                         msg |-> "object has no attribute 'items'",
                                         arg |-> file.value.type])
        ELSE IF cli = None \/ cli = EmptyDict THEN Returned("load_config", cfg)
        ELSE Returned("load_config", DeepMerge(cfg, OverrideDict(cli)))

\* The configuration files and command-line overrides load_config is called with.
LoadConfigCalls ==
    LET custom == PyList(<<ConfEntry("custom", [value |-> PyInt(123)])>>)
        contents ==
            {None,
             EmptyDict,
             PyDict([dataset |-> PyDict([n_variants |-> PyInt(50)])]),
             PyDict([dataset |-> PyDict([n_variants |-> PyInt(30)]),
                         perturbations |-> custom]),
             PyDict([dataset |-> PyDict([output |-> PyStr("./custom_output"),
                                                 random_seed |-> PyInt(9999)])]),
             PyDict([dataset |-> PyDict([n_variants |-> None, name |-> PyStr("plates")]),
                         perturbations |-> PyList(<<>>)]),
             PyDict([logging |-> PyDict([level |-> PyStr("WARNING")]),
                         perturbations |-> None, version |-> PyInt(2)]),
             custom}
        files == {[exists |-> TRUE, suffix |-> s, content |-> c] :
                     s \in {".yaml", ".json", ".txt"}, c \in contents}
                 \cup {[exists |-> FALSE, suffix |-> ".yaml", content |-> None]}
        overrides ==
            {None,
             EmptyDict,
             PyDict([n_variants |-> PyInt(100)]),
             PyDict([n_variants |-> None]),
             PyDict([n_variants |-> None, seed |-> PyInt(7),
                         verbose |-> PyBool(FALSE), debug |-> PyBool(FALSE)]),
             PyDict([n_variants |-> PyInt(0), seed |-> PyInt(0),
                         verbose |-> PyBool(TRUE), debug |-> PyBool(FALSE)]),
             PyDict([n_variants |-> None, seed |-> None,
                         verbose |-> PyBool(FALSE), debug |-> PyBool(TRUE)])}
    IN  {[fn |-> "load_config", path |-> p, cli_overrides |-> c] :
            p \in {None} \cup files, c \in overrides}

\* load_config(path, cli_overrides=cli_overrides)
LoadConfigCall ==
    /\ call.fn = "load_config"
    /\ ret = NoCall
    /\ ret' = LoadConfig(call.path, call.cli_overrides)
    /\ UNCHANGED <<call, regVars, envVars, runVars>>

InitCalls ==
    /\ registry = ImportedRegistry
    /\ regRaised = NoError
    /\ regLog = BuiltinClasses
    /\ bgDir = MissingDir
    /\ ovDir = MissingDir
    /\ gens = <<>>
    /\ fs = EmptyFiles
    /\ pyRandom = ProcessStart
    /\ npRandom = ProcessStart
    /\ pc = "idle"
    /\ fr = IdleFrame
    /\ raised = NoError
    /\ stdout = <<>>
    /\ writes = <<>>
    /\ runLog = <<>>
    /\ budget = 0
    /\ call \in SerializeCalls \cup CenterCalls \cup LoadConfigCalls
                  \cup UNION {ApplyCalls(size) : size \in Sizes}
    /\ ret = NoCall

NextCalls ==
    \/ SerializeCall
    \/ Reconstruct
    \/ ApplyCall
    \/ CenterCall
    \/ LoadConfigCall

SpecCalls == InitCalls /\ [][NextCalls]_vars

(***************************************************************************)
(* Properties.                                                             *)
(***************************************************************************)
Chain == gens[1].perturbations
SeedOf == gens[1].random_seed
Images(k) == fs[gens[k].out_dir].images
Labels(k) == fs[gens[k].out_dir].labels
WritesIn(w, dir) == {w[j] : j \in {m \in 1..Len(w) : w[m].dir = dir}}
TuplesOf(w, dir) == {e.tuple : e \in WritesIn(w, dir)}
Loadable(files) == SelectSeq(files, LAMBDA f : f.ok)
KnownChain == \A j \in 1..Len(Chain) : Chain[j].name \in DOMAIN registry
DrawsRandom(img) == \E j \in 1..Len(img.ops) : img.ops[j].py # <<>> \/ img.ops[j].np # <<>>

\* C1: two finished runs of equally configured, seeded generators with the same
\* n_variants wrote, for every (background, overlay, variant_index) triple and in
\* both images/ and labels/, the same triples with the same content.
C1_SameSeedSameOutput ==
    \A a, b \in 1..Len(runLog) :
        (SeedOf.some /\ runLog[a].n_variants = runLog[b].n_variants) =>
            \A dir \in {"images", "labels"} :
                /\ TuplesOf(runLog[a].writes, dir) = TuplesOf(runLog[b].writes, dir)
                /\ \A x \in WritesIn(runLog[a].writes, dir), y \in WritesIn(runLog[b].writes, dir) :
                       x.tuple = y.tuple => x.content = y.content /\ x.name = y.name

\* C1 witness: both generators have finished a seeded run with the same n_variants
\* whose images carry random draws.
C1_Witness ==
    /\ Len(runLog) = 2
    /\ SeedOf.some
    /\ runLog[1].gen # runLog[2].gen
    /\ runLog[1].n_variants = 2 /\ runLog[2].n_variants = 2
    /\ runLog[1].outcome = "done" /\ runLog[2].outcome = "done"
    /\ Len(runLog[2].writes) >= 4
    /\ \A e \in WritesIn(runLog[2].writes, "images") : DrawsRandom(e.content)

\* C2: a run that stands at a chain entry whose name is not registered ends with
\* the 'Unknown perturbation' error naming that entry, and has written no file.
C2_UnknownRaisesBeforeAnyWrite ==
    [][(pc = "chain" /\ Chain[fr.pi].name \notin DOMAIN registry) =>
           /\ pc' = "raised"
           /\ raised' = ValueError("Unknown perturbation", Chain[fr.pi].name)
           /\ writes' = <<>>
           /\ fs' = fs]_vars

\* C2 witness: the error was raised for the second entry, after noise was applied.
C2_Witness ==
    /\ pc = "raised"
    /\ raised = ValueError("Unknown perturbation", NameBogus)
    /\ Chain = <<ConfNoise, ConfBogus>>
    /\ npRandom.pos = 1

\* C3 (as claimed): a run over non-empty file sets whose chain holds an unregistered
\* name never reaches completion.
C3_UnknownNameIsFatal ==
    (pc = "done" /\ IterBackgrounds(bgDir) # <<>> /\ IterOverlays(ovDir) # <<>>) => KnownChain

NoBackgrounds == bgDir.entries = <<>> \/ IterBackgrounds(bgDir) = <<>>
NoOverlays == ovDir.entries = <<>> \/ IterOverlays(ovDir) = <<>>

\* C4: with no background file or no overlay file (an empty or missing directory,
\* or one without a file of an enumerated extension) the run raised a ValueError
\* and nothing was written; with no background it is the background error.
C4_EmptySourcesRaise ==
    (pc # "idle" /\ (NoBackgrounds \/ NoOverlays)) =>
        /\ pc = "raised"
        /\ raised.kind = "ValueError"
        /\ raised.msg \in {"No background images found in", "No overlay images found in"}
        /\ writes = <<>>
        /\ \A d \in DOMAIN fs : fs[d].images = EmptyFiles /\ fs[d].labels = EmptyFiles
        /\ (NoBackgrounds => raised = ValueError("No background images found in", BgPath))
        /\ (~NoBackgrounds => raised = ValueError("No overlay images found in", OvPath))

\* C4 witness: both directories are missing and the run has raised.
C4_Witness ==
    /\ pc = "raised"
    /\ bgDir = MissingDir
    /\ ovDir = MissingDir
    /\ raised.msg = "No background images found in"

\* C5 (as claimed): a background directory with at least one image file and an
\* overlay directory without images make run() raise 'No overlay images found'.
C5_OverlayErrorWhenBackgroundPresent ==
    (pc # "idle" /\ (\E j \in 1..Len(bgDir.entries) : bgDir.entries[j].ok)
                 /\ ovDir.entries = <<>>) =>
        (pc = "raised" /\ raised = ValueError("No overlay images found in", OvPath))

\* C6 (as claimed): a finished run with metadata over B loadable backgrounds and O
\* loadable overlays leaves B*O*n_variants images and as many labels, the variant
\* indices of every pair being 0..n_variants-1.
C6_ExpectedCount ==
    (pc = "done" /\ gens[1].save_metadata) =>
        LET B == Len(Loadable(IterBackgrounds(bgDir)))
            O == Len(Loadable(IterOverlays(ovDir)))
            n == runLog[Len(runLog)].n_variants
        IN  /\ Cardinality(DOMAIN Images(1)) = B * O * n
            /\ Cardinality(DOMAIN Labels(1)) = B * O * n
            /\ \A t \in TuplesOf(writes, "images") : t[3] \in 0..(n - 1)

\* C7: every metadata record written has exactly the seven fields, one {type, params}
\* descriptor per chain entry in chain order, the generator's seed and the index of
\* the variant it was written for.
C7_MetadataRecord ==
    \A e \in WritesIn(writes, "labels") :
        /\ DOMAIN e.content = {"background", "overlay", "overlay_position", "overlay_size",
                               "perturbations", "random_seed", "variant_index"}
        /\ Len(e.content.perturbations) = Len(Chain)
        /\ \A j \in 1..Len(Chain) :
              /\ DOMAIN e.content.perturbations[j] = {"type", "params"}
              /\ e.content.perturbations[j].type = Chain[j].name
              /\ e.content.perturbations[j].params = ConfParams(Chain[j])
        /\ e.content.random_seed = SeedOf
        /\ e.content.variant_index = e.tuple[3]
        /\ e.content.background = e.tuple[1]
        /\ e.content.overlay = e.tuple[2]

\* C7 witness: the record of the second variant of the second pair, chain noise, shapes.
C7_Witness ==
    /\ Chain = <<ConfNoise, ConfShapes>>
    /\ \E e \in WritesIn(writes, "labels") :
          /\ e.content.variant_index = 1
          /\ e.content.perturbations[2].type = NameShapes
    /\ Cardinality(TuplesOf(writes, "labels")) = 4

\* C8 (as claimed): when a run with metadata is over, every image S.png has exactly
\* one label, and it is S.json.
C8_LabelHasImageStem ==
    (pc = "done" /\ gens[1].save_metadata) =>
        \A img \in DOMAIN Images(1) :
            /\ Stem(img) \o ExtJson \in DOMAIN Labels(1)
            /\ Cardinality({l \in DOMAIN Labels(1) : Stem(l) = Stem(img)}) = 1

\* C9 (as claimed): within one run two different (background, overlay, variant)
\* tuples never write the same file name.
C9_NamingInjective ==
    \A j, k \in 1..Len(writes) :
        (writes[j].dir = writes[k].dir /\ writes[j].tuple # writes[k].tuple) =>
            writes[j].name # writes[k].name

FirstRegistered(name) ==
    regLog[CHOOSE j \in 1..Len(regLog) :
               /\ RegistrationName(regLog[j]) = name
               /\ \A m \in 1..(j - 1) : RegistrationName(regLog[m]) # name].id

LastCall == regLog[Len(regLog)]

\* C10: a register() call for a taken name raises the duplicate-name error and leaves
\* the registry as it was; every name maps to the first class registered under it.
C10_DuplicateLeavesRegistry ==
    [][Len(regLog') > Len(regLog) =>
           /\ (RegistrationName(LastCall') \in DOMAIN registry =>
                  /\ regRaised' = ValueError("Duplicate perturbation name",
                                             RegistrationName(LastCall'))
                  /\ registry' = registry)
           /\ \A name \in DOMAIN registry' : registry'[name] = FirstRegistered(name)']_vars

\* C10 witness: DuplicateShapes was refused and "shapes" is still ShapesPerturbation.
C10_Witness ==
    /\ Len(regLog) > Len(BuiltinClasses)
    /\ LastCall = DuplicateShapes
    /\ regRaised = ValueError("Duplicate perturbation name", NameShapes)
    /\ registry[NameShapes] = ShapesPerturbation.id

\* C11: serialize() returns exactly {type: the class's name, params: the keyword
\* arguments of the constructor}, and an instance built from the descriptor's params
\* serializes to the same descriptor.
C11_SerializeReturnsConstruction ==
    ret.fn = "serialize" =>
        /\ DOMAIN ret.value = {"type", "params"}
        /\ ret.value.type = ClassById(call.cls).name
        /\ DOMAIN ret.value.params = DOMAIN call.kwargs
        /\ \A key \in DOMAIN call.kwargs : ret.value.params[key] = call.kwargs[key]
        /\ (call.again => ret.value = call.first)

\* C11 witness: the descriptor of ShapesPerturbation(num_shapes=15, min_size=3,
\* max_size=8) was fed back and serialized again.
C11_Witness ==
    /\ ret.fn = "serialize"
    /\ call.again
    /\ call.cls = ShapesPerturbation.id
    /\ ret.value.type = NameShapes
    /\ ret.value.params = [num_shapes |-> 15, min_size |-> 3, max_size |-> 8]

\* A file whose header and pixel data can both be read.
Loads(f) == f.ok /\ f.decodes

\* C12 (as claimed): over non-empty file sets and a chain of registered names,
\* run() never raises because of a file that fails to load, and a finished run has
\* written every variant of every pair whose two files load.
C12_FailedLoadIsSkipped ==
    (IterBackgrounds(bgDir) # <<>> /\ IterOverlays(ovDir) # <<>> /\ KnownChain) =>
        /\ pc # "raised"
        /\ pc = "done" =>
              LET bgs == IterBackgrounds(bgDir)
                  ovs == IterOverlays(ovDir)
                  last == runLog[Len(runLog)]
              IN  \A b \in 1..Len(bgs), o \in 1..Len(ovs), i \in 0..(last.n_variants - 1) :
                      (Loads(bgs[b]) /\ Loads(ovs[o])) =>
                          <<bgs[b].name, ovs[o].name, i>> \in TuplesOf(last.writes, "images")

\* C13 (as claimed): every step of run() that skips a background or an overlay
\* appends a warning naming that file to the output, whatever verbose is.
C13_SkipEmitsWarning ==
    [][/\ (pc = "bg" /\ fr.bi <= Len(fr.backgrounds)
                     /\ ~Opens(fr.backgrounds[fr.bi], "RGB")) =>
              stdout' = Append(stdout, Warning("background", fr.backgrounds[fr.bi]))
       /\ (pc = "ov" /\ ~Opens(fr.overlays[fr.oi], "RGBA")) =>
              stdout' = Append(stdout, Warning("overlay", fr.overlays[fr.oi]))]_vars

\* (x, y, w, h) lies within an image of the given (width, height).
WithinBounds(region, size) ==
    /\ 0 <= region[1]
    /\ 0 <= region[2]
    /\ region[1] + region[3] <= size[1]
    /\ region[2] + region[4] <= size[2]

\* C14 (as claimed): whenever run() is about to apply a registered perturbation, the
\* region it hands over lies within the bounds of the image it hands over.
C14_RegionWithinImage ==
    (pc = "chain" /\ Chain[fr.pi].name \in DOMAIN registry) =>
        WithinBounds(RegionOf(fr), fr.img.size)

\* The arguments cannot make apply fail on a 3-channel image: the region lies
\* within the image, noise has a drawable intensity, dirt has room for its spots.
PlainArguments ==
    /\ WithinBounds(call.region, call.img.size)
    /\ call.pert.cls = NoisePerturbation.id =>
           ParamGet(call.pert.params, "intensity", 15) \in 1..32768
    /\ (call.pert.cls = TexturePerturbation.id
            /\ ParamGet(call.pert.params, "type", "grain") = "dirt") =>
           \/ TextureCount(call.pert.params, 15) = 0
           \/ call.region[3] >= 5 /\ call.region[4] >= 5

\* C15 (as claimed): apply of each built-in perturbation, on an image of each of
\* the modes L, RGB and RGBA, returns an image of the same size and mode.
C15_ApplyPreservesSizeAndMode ==
    (ret.fn = "apply" /\ PlainArguments) =>
        /\ ret.raised = NoError
        /\ ret.value.size = call.img.size
        /\ ret.value.mode = call.img.mode

\* The sample at idx belongs to a pixel of the rectangle (x, y, w, h).
Inside(idx, region) ==
    /\ region[1] <= idx[2] /\ idx[2] < region[1] + region[3]
    /\ region[2] <= idx[1] /\ idx[1] < region[2] + region[4]

Scope == ParamGet(call.pert.params, "scope", "region")

\* C16 (as claimed): every sample apply returns lies in 0..255, and every sample
\* Noise touches (all of them with scope global, those of the region otherwise) is
\* the input sample plus the noise term, a value of [-intensity, intensity), clamped
\* into 0..255, for every intensity.
C16_SamplesInRangeAndNoiseClamped ==
    (ret.fn = "apply" /\ ret.raised = NoError /\ WithinBounds(call.region, call.img.size)) =>
        /\ \A idx \in DOMAIN ret.value.at : ret.value.at[idx] \in 0..255
        /\ call.pert.cls = NoisePerturbation.id =>
              LET intensity == ParamGet(call.pert.params, "intensity", 15)
                  n == NpRandInt(call.rnd, -intensity, intensity)
              IN  /\ -intensity <= n /\ n < intensity
                  /\ \A idx \in DOMAIN ret.value.at :
                         (Scope = "global" \/ Inside(idx, call.region)) =>
                             ret.value.at[idx] = Clip(call.img.at[idx] + n, 0, 255)

\* C17: with scope "region", Noise and Warp applied to a region within the image
\* leave every sample outside the region as it was.
C17_RegionScopeLeavesOutside ==
    (/\ ret.fn = "apply" /\ ret.raised = NoError
     /\ call.pert.cls \in {NoisePerturbation.id, WarpPerturbation.id}
     /\ Scope = "region"
     /\ WithinBounds(call.region, call.img.size)) =>
        /\ DOMAIN ret.value.at = DOMAIN call.img.at
        /\ \A idx \in DOMAIN call.img.at :
               ~Inside(idx, call.region) => ret.value.at[idx] = call.img.at[idx]

\* C17 witness: Warp with default parameters was applied to the left column of a
\* 2 x 2 RGB ramp; the column changed, the right column is there to compare.
C17_Witness ==
    /\ ret.fn = "apply" /\ ret.raised = NoError
    /\ call.pert = NewPerturbation(WarpPerturbation, EmptyParams)
    /\ call.img = NewImage("RGB", <<2, 2>>, "ramp")
    /\ call.region = <<0, 0, 1, 2>>
    /\ \E idx \in DOMAIN call.img.at :
           Inside(idx, call.region) /\ ret.value.at[idx] # call.img.at[idx]
    /\ \E idx \in DOMAIN call.img.at : ~Inside(idx, call.region)

\* The chain entry run() is about to apply is a Texture of an unrecognized type.
AtUnknownTexture ==
    /\ pc = "chain"
    /\ Chain[fr.pi].name = NameTexture
    /\ ParamGet(ConfParams(Chain[fr.pi]), "type", "grain") \notin {"grain", "scratches", "dirt"}

\* C18: applying a Texture of an unrecognized type raises nothing, returns the
\* image as it was and leaves both random sources where they were, so the entries
\* after it draw what they would draw without it.
C18_UnknownTextureIsNoOp ==
    [][AtUnknownTexture =>
           /\ raised' = NoError
           /\ pc' # "raised"
           /\ fr'.img = fr.img
           /\ pyRandom' = pyRandom
           /\ npRandom' = npRandom]_vars

\* C18 witness: in a seeded run of the chain (unknown texture, noise) the first
\* image is ready to be saved; its only operation is the noise, with the first
\* draw of the seeded stream.
C18_Witness ==
    /\ pc = "save_image"
    /\ Chain = <<ConfTextureUnknown, ConfNoise>>
    /\ Len(fr.applied) = 2
    /\ Len(fr.img.ops) = 1
    /\ fr.img.ops[1].type = NameNoise
    /\ fr.img.ops[1].np = <<Seeded(42)>>

\* q is d floor-divided by 2.
IsFloorHalf(q, d) == 2 * q <= d /\ d < 2 * q + 2

\* C19: calculate_center_position returns, for all sizes, the pair of the width
\* difference and the height difference floor-divided by 2, and raises nothing;
\* an overlay larger than the background gets a negative offset.
C19_CenterIsFloorHalf ==
    ret.fn = "calculate_center_position" =>
        /\ ret.raised = NoError
        /\ Len(ret.value) = 2
        /\ IsFloorHalf(ret.value[1], call.background[1] - call.overlay[1])
        /\ IsFloorHalf(ret.value[2], call.background[2] - call.overlay[2])
        /\ (call.overlay[1] > call.background[1] => ret.value[1] < 0)
        /\ (call.overlay[2] > call.background[2] => ret.value[2] < 0)

\* C19 witness: a 2 x 1 overlay on a 1 x 2 background is placed at (-1, 0).
C19_Witness ==
    /\ ret.fn = "calculate_center_position"
    /\ call.background = <<1, 2>>
    /\ call.overlay = <<2, 1>>
    /\ ret.value = <<-1, 0>>

\* The image a run wrote for the triple of one of its labels.
PairedImage(w, label) ==
    (CHOOSE e \in WritesIn(w, "images") : e.tuple = label.tuple).content

\* C20 (as claimed): whenever two finished runs of the process wrote equal metadata
\* records for a (background, overlay, variant_index) triple, the images they wrote
\* for it are identical, whatever n_variants the runs had.
C20_RecordDeterminesImage ==
    \A a, b \in 1..Len(runLog) :
        \A x \in WritesIn(runLog[a].writes, "labels"), y \in WritesIn(runLog[b].writes, "labels") :
            x.content = y.content =>
                PairedImage(runLog[a].writes, x) = PairedImage(runLog[b].writes, y)

\* The directories that hold the same files as dir, listed in any order.
Relisted(dir) ==
    {d \in Directories({dir.entries[j] : j \in 1..Len(dir.entries)}, Len(dir.entries)) :
        Len(d.entries) = Len(dir.entries)}

\* C21 (as claimed): the order in which a run processes the background and overlay
\* files depends only on the set of files: it is the order the run would have
\* found had the filesystem listed the same directories in any other order.
C21_EnumerationOrderIsStable ==
    pc \in {"bg", "ov", "variant", "chain", "save_image", "save_metadata"} =>
        /\ \A d \in Relisted(bgDir) : IterBackgrounds(d) = fr.backgrounds
        /\ \A d \in Relisted(ovDir) : IterOverlays(d) = fr.overlays

\* The value of key in section of a configuration, None where it has none.
Setting(cfg, section, key) ==
    IF section \in DOMAIN cfg.items /\ cfg.items[section].type = "dict"
       /\ key \in DOMAIN cfg.items[section].items
    THEN cfg.items[section].items[key]
    ELSE None

\* What the command line sets for a key of the dataset section, None if nothing.
FromCli(cli, key) ==
    IF cli # None /\ key \in DOMAIN cli.items THEN cli.items[key] ELSE None

\* The parsed file of a load_config call, an empty dict where no path was given.
FileConfig ==
    IF call.path = None \/ call.path.content = None THEN EmptyDict
    ELSE call.path.content

NonNegativeParams ==
    \A k \in DOMAIN call.pert.params \cap {"intensity", "num_shapes", "min_size", "max_size"} :
        call.pert.params[k] >= 0

\* C23 (as claimed): apply of a built-in perturbation with non-negative parameters,
\* on a region of width and height at least 1 within the image, returns an image
\* and raises nothing.
C23_ApplyNeverRaises ==
    (/\ ret.fn = "apply"
     /\ call.img.mode \in {"RGB", "RGBA"}
     /\ WithinBounds(call.region, call.img.size)
     /\ call.region[3] >= 1 /\ call.region[4] >= 1
     /\ NonNegativeParams) =>
        ret.raised = NoError

\* The perturbation run() builds from the chain entry it stands at.
PertAtChain == NewPerturbation(Get(registry, Chain[fr.pi].name), ConfParams(Chain[fr.pi]))

\* C24: on a seeded generator, the step that starts run() leaves both random
\* sources freshly seeded with the generator's seed, also when it finds no source
\* file; every later step of the sweep leaves each source where it is or one draw
\* further: an apply that draws from a source finds it at the position the previous
\* draw left it and moves it on by one, and nothing reseeds it.
C24_SeedsOnceAtStart ==
    [][SeedOf.some =>
          /\ budget' < budget =>
                 /\ pyRandom' = Seeded(SeedOf.val)
                 /\ npRandom' = Seeded(SeedOf.val)
          /\ budget' = budget =>
                 /\ pyRandom' \in {pyRandom, [pyRandom EXCEPT !.pos = @ + 1]}
                 /\ npRandom' \in {npRandom, [npRandom EXCEPT !.pos = @ + 1]}
                 /\ (pc = "chain" /\ pc' # "raised") =>
                        /\ DrawsPy(PertAtChain) => pyRandom'.pos = pyRandom.pos + 1
                        /\ DrawsNp(PertAtChain) => npRandom'.pos = npRandom.pos + 1
                        /\ fr'.img.ops # fr.img.ops =>
                               LET op == fr'.img.ops[Len(fr'.img.ops)]
                               IN  /\ op.py \in {<<>>, <<pyRandom>>}
                                   /\ op.np \in {<<>>, <<npRandom>>}]_vars

\* C24 witness: a seeded run has written its fourth image; the noise of that image
\* was drawn at the fourth position of the stream seeded at the start of the run.
C24_Witness ==
    /\ SeedOf.some
    /\ pc = "done"
    /\ \E w \in WritesIn(writes, "images") :
           /\ w.content.ops # <<>>
           /\ w.content.ops[1].np = <<[Seeded(SeedOf.val) EXCEPT !.pos = 3]>>
    /\ npRandom.pos = 4

\* C25 (as claimed): the anchor (sx, sy) of a shape that Shapes draws for a region
\* within the image is a pixel of the region, x <= sx < x+w and y <= sy < y+h, and
\* the shape is drawn from that anchor.
C25_ShapeAnchorInsideRegion ==
    (/\ ret.fn = "apply"
     /\ ret.raised = NoError
     /\ call.pert.cls = ShapesPerturbation.id
     /\ ParamGet(call.pert.params, "num_shapes", 15) >= 1
     /\ WithinBounds(call.region, call.img.size)) =>
        LET sx == ShapeAnchor(call.region, call.rnd)[1]
            sy == ShapeAnchor(call.region, call.rnd)[2]
        IN  /\ call.region[1] <= sx /\ sx < call.region[1] + call.region[3]
            /\ call.region[2] <= sy /\ sy < call.region[2] + call.region[4]
            /\ \A idx \in DOMAIN ret.value.at :
                   ret.value.at[idx] # call.img.at[idx] => sx <= idx[2] /\ sy <= idx[1]

\* C26 (as claimed): for every destination pixel (px, py) of the grid Warp remaps
\* (the whole image with scope "global", the region otherwise), the source
\* coordinate is px + sin(py/frequency)*intensity and py + cos(px/frequency)*intensity,
\* both terms taken at the undisplaced px and py, each clamped to the grid.
C26_WarpDisplacesFromUndisplaced ==
    (/\ ret.fn = "apply"
     /\ ret.raised = NoError
     /\ call.pert.cls = WarpPerturbation.id
     /\ WithinBounds(call.region, call.img.size)) =>
        LET intensity == ParamGet(call.pert.params, "intensity", 5)
            frequency == ParamGet(call.pert.params, "frequency", 20)
            w == IF Scope = "global" THEN call.img.size[1] ELSE call.region[3]
            h == IF Scope = "global" THEN call.img.size[2] ELSE call.region[4]
        IN  \A px \in 0..(w - 1), py \in 0..(h - 1) :
                WarpMaps(intensity, frequency, px, py, w, h) =
                    <<Clip(1000 * px + Sin((1000 * py) \div frequency) * intensity,
                           0, 1000 * (w - 1)),
                      Clip(1000 * py + Cos((1000 * px) \div frequency) * intensity,
                           0, 1000 * (h - 1))>>

\* C27: while run() works on a variant, its image carries the composite of the
\* loaded background and overlay at the centre position and only what this
\* variant's chain has applied so far, nothing at all before the first
\* perturbation, whatever the variant index; the loaded background and overlay are
\* still what was loaded from the files.
C27_FreshCompositePerVariant ==
    pc \in {"chain", "save_image", "save_metadata"} =>
        /\ fr.img.bg = fr.bg.name
        /\ fr.img.ov = fr.overlay.name
        /\ fr.img.at = CalculateCenterPosition(fr.bg.size, fr.overlay.size)
        /\ fr.img.size = fr.bg.size
        /\ Len(fr.img.ops) = Len(fr.applied)
        /\ Len(fr.applied) = IF pc = "chain" THEN fr.pi - 1 ELSE Len(Chain)
        /\ \A j \in 1..Len(fr.img.ops) : fr.img.ops[j].type = Chain[j].name
        /\ fr.bg = fr.backgrounds[fr.bi]
        /\ fr.overlay = fr.overlays[fr.oi]

\* C27 witness: the first variant was written with a shape drawn in place on it,
\* and the second variant stands before its first perturbation with a bare composite.
C27_Witness ==
    /\ pc = "chain"
    /\ fr.i = 1
    /\ fr.pi = 1
    /\ fr.img.ops = <<>>
    /\ Chain = <<ConfShapes>>
    /\ \E w \in WritesIn(writes, "images") :
           /\ w.tuple = <<fr.bg.name, fr.overlay.name, 0>>
           /\ Len(w.content.ops) = 1
           /\ w.content.ops[1].type = NameShapes

\* The images of the output directory whose metadata file is not there.
Unlabelled == {f \in DOMAIN Images(1) : LabelName(f) \notin DOMAIN Labels(1)}

\* C28: at every moment of a run with metadata, interrupted or not, the files were
\* written image, metadata, image, metadata, ..., each metadata right after the
\* image of the same variant and under the name derived from the image's; every
\* metadata file in labels/ has its image in images/, and at most one image, the
\* one just written, has no metadata file yet.
C28_ImageBeforeMetadata ==
    gens[1].save_metadata =>
        /\ \A j \in 1..Len(writes) :
               IF j % 2 = 1 THEN writes[j].dir = "images"
               ELSE /\ writes[j].dir = "labels"
                    /\ writes[j].tuple = writes[j - 1].tuple
                    /\ writes[j].name = LabelName(writes[j - 1].name)
        /\ \A l \in DOMAIN Labels(1) : \E f \in DOMAIN Images(1) : LabelName(f) = l
        /\ Cardinality(Unlabelled) <= 1
        /\ pc # "save_metadata" => Unlabelled = {}

\* C28 witness: a run that wrote the image and the metadata of a first pair was
\* interrupted by an error at the next background.
C28_Witness ==
    /\ pc = "raised"
    /\ gens[1].save_metadata
    /\ Len(writes) = 2
    /\ writes[1].dir = "images"
    /\ writes[2].dir = "labels"
    /\ Cardinality(DOMAIN Images(1)) = 1
    /\ Cardinality(DOMAIN Labels(1)) = 1

\* The files a directory of an empty output tree holds after the writes w: each
\* name with the content of the last write under it.
FilesAfter(w, dir) ==
    [name \in {e.name : e \in WritesIn(w, dir)} |->
        w[CHOOSE j \in 1..Len(w) :
              /\ w[j].dir = dir /\ w[j].name = name
              /\ \A m \in (j + 1)..Len(w) : ~(w[m].dir = dir /\ w[m].name = name)].content]

\* C29: when a seeded generator has just finished run(n_variants) twice in a row
\* over the same source files, the second run wrote what the first wrote, file by
\* file, and its output directory holds the files the first run left, names and
\* contents: exactly those of the first run when that run began with an empty
\* output directory.
C29_RunTwiceIsIdempotent ==
    \A b \in 2..Len(runLog) :
        (/\ b = Len(runLog)
         /\ pc = "done"
         /\ SeedOf.some
         /\ runLog[b - 1].gen = runLog[b].gen
         /\ runLog[b - 1].n_variants = runLog[b].n_variants
         /\ runLog[b - 1].outcome = "done" /\ runLog[b].outcome = "done") =>
            LET dir == gens[runLog[b].gen].out_dir
                images == FilesAfter(runLog[b - 1].writes, "images")
                labels == FilesAfter(runLog[b - 1].writes, "labels")
            IN  /\ runLog[b].writes = runLog[b - 1].writes
                /\ \A name \in DOMAIN images : fs[dir].images[name] = images[name]
                /\ \A name \in DOMAIN labels : fs[dir].labels[name] = labels[name]
                /\ (\A m \in 1..(b - 2) : runLog[m].gen # runLog[b].gen) =>
                       fs[dir].images = images /\ fs[dir].labels = labels

\* C29 witness: the first generator, seeded, has run twice with two variants over
\* two backgrounds, and its images carry random draws.
C29_Witness ==
    /\ Len(runLog) = 2
    /\ SeedOf.some
    /\ runLog[1].gen = 1 /\ runLog[2].gen = 1
    /\ runLog[1].n_variants = 2 /\ runLog[2].n_variants = 2
    /\ runLog[2].outcome = "done"
    /\ pc = "done"
    /\ Cardinality(DOMAIN Images(1)) = 4
    /\ \A f \in DOMAIN Images(1) : DrawsRandom(Images(1)[f])

\* The classes register() accepted: those the registry holds.
Accepted == {ClassById(registry[name]) : name \in DOMAIN registry}

\* C30 (as claimed): for every class that register() accepted and that has a name
\* attribute, the 'type' its serialize() emits is a key of the registry, and
\* get() of it returns that class.
C30_TypeResolvesToClass ==
    \A cls \in Accepted :
        cls.has_name =>
            LET type == Serialize(NewPerturbation(cls, EmptyParams)).type
            IN  /\ type \in DOMAIN registry
                /\ Get(registry, type) = cls

=============================================================================
